---- MODULE Spec2Model ----
(***************************************************************************)
(* The per-stream HTTP/3 framing engine of src/src/h3/stream.rs: one       *)
(* Stream object, its receive buffer with two cursors, and the state       *)
(* machine the setters and parse_frame drive.                              *)
(*                                                                         *)
(* A Stream is a record holding the struct's fields.  Option<T> is a       *)
(* sequence of at most one element: << >> is None, <<x>> is Some(x).       *)
(* Every method is an operator from the stream (and the arguments) to the  *)
(* record [s, res, val]: the stream after the call, the Result's variant   *)
(* ("Ok" or the Error's name, "Panic" for a Rust panic) and the returned   *)
(* value as a sequence.  The fields id and _is_local are written once and  *)
(* read by nothing but the trace output, and are left out.                 *)
(***************************************************************************)
EXTENDS Integers, Sequences, FiniteSets, TLC

(***************************************************************************)
(* Bounds of the model.                                                    *)
(***************************************************************************)
\* total number of bytes ever appended to one stream's buffer
MaxBuf == 2
\* largest number of bytes one add_data call appends
MaxChunk == 1
\* largest length passed to set_frame_payload_len
MaxPayloadLen == 2

(***************************************************************************)
(* Program constants.                                                      *)
(***************************************************************************)
HTTP3_CONTROL_STREAM_TYPE_ID == 67
HTTP3_PUSH_STREAM_TYPE_ID == 80
QPACK_ENCODER_STREAM_TYPE_ID == 72
QPACK_DECODER_STREAM_TYPE_ID == 104

\* super::frame::*_FRAME_TYPE_ID (HTTP/3 frame type tags)
DATA_FRAME_TYPE_ID == 0
HEADERS_FRAME_TYPE_ID == 1
PRIORITY_FRAME_TYPE_ID == 2
CANCEL_PUSH_FRAME_TYPE_ID == 3
SETTINGS_FRAME_TYPE_ID == 4
PUSH_PROMISE_FRAME_TYPE_ID == 5

(***************************************************************************)
(* Input domains of the driver.                                            *)
(***************************************************************************)
\* stream ids handed to Stream::new: one bidirectional, one unidirectional
StreamIds == {1, 2}
\* widths handed to set_stream_type_len (the dispatcher's is 1)
TyLens == {0, 1}
\* widths handed to set_next_varint_len
VarintLens == {1, 2}
\* byte values appended by add_data: 4 is a complete one-byte varint (and
\* the SETTINGS tag), 64 opens a two-byte varint
ByteVals == {4, 64}
\* frame-type values handed to set_frame_type by the driver: a frame of
\* the request whitelist, SETTINGS, and a frame that only a control stream
\* takes
FrameTypeVals == {DATA_FRAME_TYPE_ID, SETTINGS_FRAME_TYPE_ID,
                  CANCEL_PUSH_FRAME_TYPE_ID}
\* the u8 values the frame-type rules are checked on
AllFrameTypes == 0..15
\* Option<StreamType> values handed to set_stream_type
StreamTypeVals == {<< >>, <<"Control">>, <<"Request">>, <<"Push">>,
                   <<"QpackEncoder">>, <<"QpackDecoder">>}

SeqsUpTo(S, n) == UNION {[1..k -> S] : k \in 0..n}

(***************************************************************************)
(* enum StreamType, enum StreamState                                       *)
(***************************************************************************)
StreamType == {"Control", "Request", "Push", "QpackEncoder", "QpackDecoder"}

StreamState == {"StreamTypeLen", "StreamType", "FrameTypeLen", "FrameType",
                "FramePayloadLenLen", "FramePayloadLen", "FramePayload",
                "PushIdLen", "PushId", "QpackInstruction", "Invalid", "Done"}

\* StreamType::deserialize with the two QPACK tags exchanged
deserialize_qpack_swapped(v) ==
    CASE v = HTTP3_CONTROL_STREAM_TYPE_ID -> <<"Control">>
      [] v = HTTP3_PUSH_STREAM_TYPE_ID -> <<"Push">>
      [] v = QPACK_DECODER_STREAM_TYPE_ID -> <<"QpackEncoder">>
      [] v = QPACK_ENCODER_STREAM_TYPE_ID -> <<"QpackDecoder">>
      [] OTHER -> << >>

\* StreamType::deserialize
deserialize(v) ==
    CASE v = HTTP3_CONTROL_STREAM_TYPE_ID -> <<"Control">>
      [] v = HTTP3_PUSH_STREAM_TYPE_ID -> <<"Push">>
      [] v = QPACK_ENCODER_STREAM_TYPE_ID -> <<"QpackEncoder">>
      [] v = QPACK_DECODER_STREAM_TYPE_ID -> <<"QpackDecoder">>
      [] OTHER -> << >>

(***************************************************************************)
(* Collaborators outside stream.rs.                                        *)
(***************************************************************************)
\* crate::stream::is_bidi: bit 0x2 of the id is clear
is_bidi(id) == (id \div 2) % 2 = 0

\* octets::varint_parse_len: the width the two top bits of the first byte give
varint_parse_len(first) ==
    CASE first \div 64 = 0 -> 1
      [] first \div 64 = 1 -> 2
      [] first \div 64 = 2 -> 4
      [] OTHER -> 8

RECURSIVE be_value(_, _)
\* big-endian value of the bytes b, continuing from acc
be_value(b, acc) ==
    IF b = << >> THEN acc ELSE be_value(Tail(b), acc * 256 + Head(b))

\* octets::Octets::get_varint on the slice b: fails when the slice is shorter
\* than the width its first byte announces, else decodes that many bytes
octets_get_varint(b) ==
    IF Len(b) < 1 THEN [ok |-> FALSE, v |-> 0]
    ELSE LET len == varint_parse_len(b[1]) IN
         IF len > Len(b) THEN [ok |-> FALSE, v |-> 0]
         ELSE [ok |-> TRUE,
               v |-> be_value(SubSeq(b, 2, len), b[1] % 64)]

RECURSIVE varints_complete(_)
\* the bytes b are a run of whole varints
varints_complete(b) ==
    IF b = << >> THEN TRUE
    ELSE LET len == varint_parse_len(b[1]) IN
         len <= Len(b) /\ varints_complete(SubSeq(b, len + 1, Len(b)))

\* super::frame::Frame::from_bytes2: the structured frame of a type tag, a
\* declared length and the payload bytes; fails on a malformed payload.  DATA
\* and HEADERS payloads are opaque, every other payload is a run of varints.
from_bytes2(frame_type, payload_length, bytes) ==
    IF frame_type \in {DATA_FRAME_TYPE_ID, HEADERS_FRAME_TYPE_ID}
       \/ varints_complete(bytes)
    THEN [ok |-> TRUE, frame |-> <<frame_type, payload_length, bytes>>]
    ELSE [ok |-> FALSE, frame |-> << >>]

(***************************************************************************)
(* struct Stream and its methods.                                          *)
(***************************************************************************)
Ret(s, res, val) == [s |-> s, res |-> res, val |-> val]

\* Stream::new with the bidirectional stream left to be initialised by its
\* first frame, like a control stream
new_request_uninitialised(id) ==
    [ty |-> IF is_bidi(id) THEN <<"Request">> ELSE << >>,
     initialised |-> FALSE,
     ty_len |-> 0,
     state |-> IF is_bidi(id) THEN "FramePayloadLenLen" ELSE "StreamTypeLen",
     stream_offset |-> 0,
     buf |-> << >>,
     buf_read_off |-> 0,
     buf_end_pos |-> 0,
     next_varint_len |-> 0,
     frame_payload_len |-> 0,
     frame_type |-> << >>]

\* Stream::new
new(id) ==
    [ty |-> IF is_bidi(id) THEN <<"Request">> ELSE << >>,
     initialised |-> is_bidi(id),
     ty_len |-> 0,
     state |-> IF is_bidi(id) THEN "FramePayloadLenLen" ELSE "StreamTypeLen",
     stream_offset |-> 0,
     buf |-> << >>,
     buf_read_off |-> 0,
     buf_end_pos |-> 0,
     next_varint_len |-> 0,
     frame_payload_len |-> 0,
     frame_type |-> << >>]

\* Stream::do_state_transition
do_state_transition(s, st) == [s EXCEPT !.state = st]

\* &mut self.buf[from..to]: the slice, or a panic when the range is not
\* inside the vector
slice_in_range(buf, from, to) == from <= to /\ to <= Len(buf)

\* Stream::buf_bytes refusing a read that ends at the last appended byte
buf_bytes_strict(s, size) ==
    LET desired_end_index == s.buf_read_off + size IN
    IF desired_end_index < s.buf_end_pos
    THEN IF slice_in_range(s.buf, s.buf_read_off, desired_end_index)
         THEN Ret(s, "Ok", SubSeq(s.buf, s.buf_read_off + 1, desired_end_index))
         ELSE Ret(s, "Panic", << >>)
    ELSE Ret(s, "BufferTooShort", << >>)

\* Stream::buf_bytes
buf_bytes(s, size) ==
    LET desired_end_index == s.buf_read_off + size IN
    IF desired_end_index < s.buf_end_pos + 1
    THEN IF slice_in_range(s.buf, s.buf_read_off, desired_end_index)
         THEN Ret(s, "Ok", SubSeq(s.buf, s.buf_read_off + 1, desired_end_index))
         ELSE Ret(s, "Panic", << >>)
    ELSE Ret(s, "BufferTooShort", << >>)

\* Stream::add_data with buf_end_pos assigned instead of advanced
add_data_sets_end_pos(s, d) ==
    Ret([s EXCEPT !.buf_end_pos = Len(d), !.buf = @ \o d], "Ok", << >>)

\* Stream::add_data
add_data(s, d) ==
    Ret([s EXCEPT !.buf_end_pos = @ + Len(d), !.buf = @ \o d], "Ok", << >>)

\* Stream::set_stream_type_len without its test of the state
set_stream_type_len_unguarded(s, len) ==
    Ret(do_state_transition([s EXCEPT !.ty_len = len], "StreamType"),
        "Ok", << >>)

\* Stream::set_stream_type_len
set_stream_type_len(s, len) ==
    IF s.state = "StreamTypeLen"
    THEN Ret(do_state_transition([s EXCEPT !.ty_len = len], "StreamType"),
             "Ok", << >>)
    ELSE Ret(s, "InternalError", << >>)

\* Stream::set_stream_type with a Push stream sent straight to framing
set_stream_type_push_framed(s, ty) ==
    IF s.state = "StreamType"
    THEN LET s1 == [s EXCEPT !.ty = ty,
                             !.stream_offset = @ + s.ty_len,
                             !.buf_read_off = @ + s.ty_len] IN
         CASE ty \in {<<"Request">>, <<"Control">>, <<"Push">>} ->
                Ret(do_state_transition(s1, "FramePayloadLenLen"), "Ok", << >>)
           [] ty \in {<<"QpackEncoder">>, <<"QpackDecoder">>} ->
                Ret([do_state_transition(s1, "QpackInstruction")
                        EXCEPT !.initialised = TRUE], "Ok", << >>)
           [] OTHER ->
                Ret(do_state_transition(s1, "Invalid"), "Ok", << >>)
    ELSE Ret(s, "InternalError", << >>)

\* Stream::set_stream_type
set_stream_type(s, ty) ==
    IF s.state = "StreamType"
    THEN LET s1 == [s EXCEPT !.ty = ty,
                             !.stream_offset = @ + s.ty_len,
                             !.buf_read_off = @ + s.ty_len] IN
         CASE ty = <<"Request">> ->
                Ret(do_state_transition(s1, "FramePayloadLenLen"), "Ok", << >>)
           [] ty = <<"Control">> ->
                Ret(do_state_transition(s1, "FramePayloadLenLen"), "Ok", << >>)
           [] ty = <<"Push">> ->
                Ret(do_state_transition(s1, "PushIdLen"), "Ok", << >>)
           [] ty \in {<<"QpackEncoder">>, <<"QpackDecoder">>} ->
                Ret([do_state_transition(s1, "QpackInstruction")
                        EXCEPT !.initialised = TRUE], "Ok", << >>)
           [] OTHER ->
                Ret(do_state_transition(s1, "Invalid"), "Ok", << >>)
    ELSE Ret(s, "InternalError", << >>)

\* Stream::set_next_varint_len
set_next_varint_len(s, len) ==
    LET s1 == [s EXCEPT !.next_varint_len = len] IN
    CASE s.state = "FramePayloadLenLen" ->
           Ret(do_state_transition(s1, "FramePayloadLen"), "Ok", << >>)
      [] s.state = "FrameTypeLen" ->
           Ret(do_state_transition(s1, "FrameType"), "Ok", << >>)
      [] s.state = "PushIdLen" ->
           Ret(do_state_transition(s1, "PushId"), "Ok", << >>)
      [] OTHER -> Ret(s1, "Ok", << >>)

\* Stream::get_varint with the cursors advanced ahead of the decode
get_varint_advances_first(s) ==
    IF s.buf_read_off > Len(s.buf) THEN Ret(s, "Panic", << >>)
    ELSE IF Len(s.buf) - s.buf_read_off >= s.next_varint_len
    THEN LET n == s.buf_read_off + s.next_varint_len
             varint == octets_get_varint(SubSeq(s.buf, s.buf_read_off + 1, n))
             s1 == [s EXCEPT !.stream_offset = @ + s.next_varint_len,
                             !.buf_read_off = @ + s.next_varint_len]
         IN  IF ~varint.ok THEN Ret(s1, "BufferTooShort", << >>)
             ELSE Ret(s1, "Ok", <<varint.v>>)
    ELSE Ret(s, "Done", << >>)

\* Stream::get_varint.  buf.len() - buf_read_off underflows when the cursor
\* is past the vector: a debug build panics on the subtraction, a release
\* build wraps, passes the test and panics on the slice.
get_varint(s) ==
    IF s.buf_read_off > Len(s.buf) THEN Ret(s, "Panic", << >>)
    ELSE IF Len(s.buf) - s.buf_read_off >= s.next_varint_len
    THEN LET n == s.buf_read_off + s.next_varint_len
             varint == octets_get_varint(SubSeq(s.buf, s.buf_read_off + 1, n))
         IN  IF ~varint.ok THEN Ret(s, "BufferTooShort", << >>)
             ELSE Ret([s EXCEPT !.stream_offset = @ + s.next_varint_len,
                                !.buf_read_off = @ + s.next_varint_len],
                      "Ok", <<varint.v>>)
    ELSE Ret(s, "Done", << >>)

\* Stream::get_u8 advancing the stream offset and not the read cursor
get_u8_keeps_cursor(s) ==
    LET b == buf_bytes(s, 1) IN
    IF b.res # "Ok" THEN Ret(s, b.res, << >>)
    ELSE Ret([s EXCEPT !.stream_offset = @ + 1], "Ok", <<b.val[1]>>)

\* Stream::get_u8
get_u8(s) ==
    LET b == buf_bytes(s, 1) IN
    IF b.res # "Ok" THEN Ret(s, b.res, << >>)
    ELSE Ret([s EXCEPT !.stream_offset = @ + 1, !.buf_read_off = @ + 1],
             "Ok", <<b.val[1]>>)

\* Stream::_set_push_id
set_push_id(s, id) ==
    IF s.ty = <<"Push">>
    THEN Ret([s EXCEPT !.initialised = TRUE], "Ok", << >>)
    ELSE Ret(s, "InternalError", << >>)

\* Stream::set_frame_payload_len with the length stored ahead of the match
set_frame_payload_len_stores_first(s, len) ==
    IF s.ty \in {<<"Control">>, <<"Request">>, <<"Push">>}
    THEN Ret(do_state_transition([s EXCEPT !.frame_payload_len = len],
                                 "FrameTypeLen"), "Ok", << >>)
    ELSE Ret([s EXCEPT !.frame_payload_len = len], "UnexpectedFrame", << >>)

\* Stream::set_frame_payload_len without its match on the stream's role
set_frame_payload_len_any_role(s, len) ==
    Ret(do_state_transition([s EXCEPT !.frame_payload_len = len],
                            "FrameTypeLen"), "Ok", << >>)

\* Stream::set_frame_payload_len
set_frame_payload_len(s, len) ==
    IF s.ty \in {<<"Control">>, <<"Request">>, <<"Push">>}
    THEN Ret(do_state_transition([s EXCEPT !.frame_payload_len = len],
                                 "FrameTypeLen"), "Ok", << >>)
    ELSE Ret(s, "UnexpectedFrame", << >>)

\* Stream::set_frame_type, the Some(StreamType::Control) arm with the
\* duplicate-SETTINGS test left out
set_frame_type_control_no_duplicate_test(s, ty) ==
    IF ~s.initialised /\ ty # SETTINGS_FRAME_TYPE_ID
    THEN Ret(s, "MissingSettings", << >>)
    ELSE Ret([do_state_transition([s EXCEPT !.frame_type = <<ty>>],
                                  "FramePayload")
                EXCEPT !.initialised = TRUE], "Ok", << >>)

\* Stream::set_frame_type, the Some(StreamType::Control) arm with the
\* first-frame test failing only after the frame type was stored
set_frame_type_control_stores_first(s, ty) ==
    IF ~s.initialised
    THEN IF ty = SETTINGS_FRAME_TYPE_ID
         THEN Ret([do_state_transition([s EXCEPT !.frame_type = <<ty>>],
                                       "FramePayload")
                     EXCEPT !.initialised = TRUE], "Ok", << >>)
         ELSE Ret([s EXCEPT !.frame_type = <<ty>>], "MissingSettings", << >>)
    ELSE IF ty = SETTINGS_FRAME_TYPE_ID
         THEN Ret(s, "UnexpectedFrame", << >>)
         ELSE Ret(do_state_transition([s EXCEPT !.frame_type = <<ty>>],
                                      "FramePayload"), "Ok", << >>)

\* Stream::set_frame_type, the Some(StreamType::Control) arm accepting
\* SETTINGS without storing the frame type
set_frame_type_control_forgets_type(s, ty) ==
    IF ~s.initialised
    THEN IF ty = SETTINGS_FRAME_TYPE_ID
         THEN Ret([do_state_transition(s, "FramePayload")
                     EXCEPT !.initialised = TRUE], "Ok", << >>)
         ELSE Ret(s, "MissingSettings", << >>)
    ELSE IF ty = SETTINGS_FRAME_TYPE_ID
         THEN Ret(s, "UnexpectedFrame", << >>)
         ELSE Ret(do_state_transition([s EXCEPT !.frame_type = <<ty>>],
                                      "FramePayload"), "Ok", << >>)

\* Stream::set_frame_type, the Some(StreamType::Control) arm
set_frame_type_control(s, ty) ==
    IF ~s.initialised
    THEN IF ty = SETTINGS_FRAME_TYPE_ID
         THEN Ret([do_state_transition([s EXCEPT !.frame_type = <<ty>>],
                                       "FramePayload")
                     EXCEPT !.initialised = TRUE], "Ok", << >>)
         ELSE Ret(s, "MissingSettings", << >>)
    ELSE IF ty = SETTINGS_FRAME_TYPE_ID
         THEN Ret(s, "UnexpectedFrame", << >>)
         ELSE Ret(do_state_transition([s EXCEPT !.frame_type = <<ty>>],
                                      "FramePayload"), "Ok", << >>)

\* Stream::set_frame_type, the Some(StreamType::Request) arm with the
\* trailing frame_type assignment placed ahead of the match
set_frame_type_request_stores_first(s, ty) ==
    IF ty \in {HEADERS_FRAME_TYPE_ID, DATA_FRAME_TYPE_ID,
               PRIORITY_FRAME_TYPE_ID, PUSH_PROMISE_FRAME_TYPE_ID}
    THEN Ret(do_state_transition([s EXCEPT !.frame_type = <<ty>>],
                                 "FramePayload"), "Ok", << >>)
    ELSE Ret([s EXCEPT !.frame_type = <<ty>>], "UnexpectedFrame", << >>)

\* Stream::set_frame_type, the Some(StreamType::Request) arm
set_frame_type_request(s, ty) ==
    IF ty \in {HEADERS_FRAME_TYPE_ID, DATA_FRAME_TYPE_ID,
               PRIORITY_FRAME_TYPE_ID, PUSH_PROMISE_FRAME_TYPE_ID}
    THEN Ret(do_state_transition([s EXCEPT !.frame_type = <<ty>>],
                                 "FramePayload"), "Ok", << >>)
    ELSE Ret(s, "UnexpectedFrame", << >>)

\* Stream::set_frame_type, the Some(StreamType::Push) arm going on to the
\* payload as the other two arms do
set_frame_type_push_to_payload(s, ty) ==
    Ret(do_state_transition([s EXCEPT !.frame_type = <<ty>>],
                            "FramePayload"), "Ok", << >>)

\* Stream::set_frame_type, the Some(StreamType::Push) arm
set_frame_type_push(s, ty) ==
    Ret(do_state_transition([s EXCEPT !.frame_type = <<ty>>],
                            "FramePayloadLenLen"), "Ok", << >>)

\* Stream::set_frame_type with the streams of the catch-all arm framed as
\* request streams are
set_frame_type_frames_any_role(s, ty) ==
    CASE s.ty = <<"Control">> -> set_frame_type_control(s, ty)
      [] s.ty = <<"Push">> -> set_frame_type_push(s, ty)
      [] OTHER -> set_frame_type_request(s, ty)

\* Stream::set_frame_type
set_frame_type(s, ty) ==
    CASE s.ty = <<"Control">> -> set_frame_type_control(s, ty)
      [] s.ty = <<"Request">> -> set_frame_type_request(s, ty)
      [] s.ty = <<"Push">> -> set_frame_type_push(s, ty)
      [] OTHER -> Ret(s, "UnexpectedFrame", << >>)

\* Stream::parse_frame with the consumed bytes dropped and the read cursor
\* set back to 0, as its TODO proposes, the buffer left as it is
parse_frame_rewinds(s) ==
    IF s.frame_type = << >> THEN Ret(s, "Panic", << >>)
    ELSE LET b == buf_bytes(s, s.frame_payload_len) IN
         IF b.res # "Ok" THEN Ret(s, b.res, << >>)
         ELSE LET frame == from_bytes2(s.frame_type[1], s.frame_payload_len,
                                       b.val) IN
              IF ~frame.ok THEN Ret(s, "MalformedFrame", << >>)
              ELSE Ret(do_state_transition(
                          [s EXCEPT !.buf_read_off = 0,
                                    !.stream_offset = @ + s.frame_payload_len],
                          "FramePayloadLenLen"),
                       "Ok", <<frame.frame>>)

\* Stream::parse_frame handing the codec whatever is buffered, without the
\* buf_bytes test for a whole payload
parse_frame_unchecked(s) ==
    IF s.frame_type = << >> THEN Ret(s, "Panic", << >>)
    ELSE LET avail == SubSeq(s.buf, s.buf_read_off + 1, Len(s.buf))
             frame == from_bytes2(s.frame_type[1], s.frame_payload_len, avail)
         IN  IF ~frame.ok THEN Ret(s, "MalformedFrame", << >>)
             ELSE Ret(do_state_transition(
                         [s EXCEPT !.buf_read_off = @ + s.frame_payload_len,
                                   !.stream_offset = @ + s.frame_payload_len],
                         "FramePayloadLenLen"),
                      "Ok", <<frame.frame>>)

\* Stream::more.  rem_bytes is a u64: buf_end_pos - buf_read_off - 1
\* underflows when no byte is unconsumed (or the cursor is past the end).
\* A build with overflow checks panics there; one without wraps to a value
\* near 2^64, which is > 0.  The bool returned is the variant "True" or
\* "False".
more(s, overflow_checks) ==
    LET rem_bytes == s.buf_end_pos - s.buf_read_off - 1 IN
    IF rem_bytes < 0
    THEN IF overflow_checks THEN Ret(s, "Panic", << >>)
         ELSE Ret(s, "True", << >>)
    ELSE Ret(s, IF rem_bytes > 0 THEN "True" ELSE "False", << >>)

\* Stream::parse_frame.  The arguments of from_bytes2 are evaluated in
\* order: frame_type.unwrap() panics on None before buf_bytes is tried.
parse_frame(s) ==
    IF s.frame_type = << >> THEN Ret(s, "Panic", << >>)
    ELSE LET b == buf_bytes(s, s.frame_payload_len) IN
         IF b.res # "Ok" THEN Ret(s, b.res, << >>)
         ELSE LET frame == from_bytes2(s.frame_type[1], s.frame_payload_len,
                                       b.val) IN
              IF ~frame.ok THEN Ret(s, "MalformedFrame", << >>)
              ELSE Ret(do_state_transition(
                          [s EXCEPT !.buf_read_off = @ + s.frame_payload_len,
                                    !.stream_offset = @ + s.frame_payload_len],
                          "FramePayloadLenLen"),
                       "Ok", <<frame.frame>>)

(***************************************************************************)
(* The engine under an arbitrary caller: one Stream, and any method called *)
(* with any argument at any time.                                          *)
(***************************************************************************)
VARIABLES
    \* the Stream object
    stream,
    \* the last call made on it: the method and the Result variant it returned
    call,
    \* how many set_frame_type(SETTINGS) calls have succeeded on the stream
    \* while it was a Control stream (history, counted up to 2)
    settings_ok,
    \* history of a partial payload: "short" after parse_frame failed with
    \* BufferTooShort in FramePayload and only add_data calls have followed,
    \* "retried" right after the parse_frame that then succeeded, else "none"
    retry,
    \* the bytes of one control stream as the peer sent them
    wire,
    \* two dispatchers reading those bytes, each with a Stream of its own:
    \* drv.whole is handed them in one add_data call, drv.bytewise one byte
    \* at a time (none while the stream is driven by the arbitrary caller)
    drv

vars == <<stream, call, settings_ok, retry, wire, drv>>

\* a dispatcher before it has read anything: its Stream, the number of wire
\* bytes handed to it, the frames it was yielded, the error that stopped it
Dispatcher(id) == [s |-> new(id), fed |-> 0, frames |-> << >>, err |-> "None"]

Feeds == {"whole", "bytewise"}

Called(op, r) == [op |-> op, res |-> r.res]

\* one method call with result r; a panic ends the use of the object
Call(op, arg, r) ==
    /\ call.res # "Panic"
    /\ stream' = r.s
    /\ call' = Called(op, r)
    /\ settings_ok' =
         IF /\ op = "set_frame_type"
            /\ stream.ty = <<"Control">>
            /\ arg = <<SETTINGS_FRAME_TYPE_ID>>
            /\ r.res = "Ok"
            /\ settings_ok < 2
         THEN settings_ok + 1
         ELSE settings_ok
    /\ retry' =
         CASE op = "parse_frame" /\ stream.state = "FramePayload"
                /\ r.res = "BufferTooShort" -> "short"
           [] op = "parse_frame" /\ retry = "short" /\ r.res = "Ok" -> "retried"
           [] op = "add_data" /\ retry = "short" -> "short"
           [] OTHER -> "none"
    /\ UNCHANGED <<wire, drv>>

Init ==
    /\ \E id \in StreamIds :
         /\ stream = new(id)
         /\ call = [op |-> "new", res |-> "Ok"]
    /\ settings_ok = 0
    /\ retry = "none"
    /\ wire = << >>
    /\ drv = << >>

AddData ==
    \E d \in SeqsUpTo(ByteVals, MaxChunk) :
        /\ Len(stream.buf) + Len(d) <= MaxBuf
        /\ Call("add_data", d, add_data(stream, d))

BufBytes ==
    \E size \in 0..MaxPayloadLen :
        Call("buf_bytes", <<size>>, buf_bytes(stream, size))

SetStreamTypeLen ==
    \E len \in TyLens :
        Call("set_stream_type_len", <<len>>, set_stream_type_len(stream, len))

SetStreamType ==
    \E ty \in StreamTypeVals :
        Call("set_stream_type", ty, set_stream_type(stream, ty))

SetNextVarintLen ==
    \E len \in VarintLens :
        Call("set_next_varint_len", <<len>>, set_next_varint_len(stream, len))

GetVarint == Call("get_varint", << >>, get_varint(stream))

GetU8 == Call("get_u8", << >>, get_u8(stream))

SetPushId ==
    \E id \in {0} : Call("_set_push_id", <<id>>, set_push_id(stream, id))

SetFramePayloadLen ==
    \E len \in 0..MaxPayloadLen :
        Call("set_frame_payload_len", <<len>>,
             set_frame_payload_len(stream, len))

SetFrameType ==
    \E ty \in FrameTypeVals :
        Call("set_frame_type", <<ty>>, set_frame_type(stream, ty))

ParseFrame == Call("parse_frame", << >>, parse_frame(stream))

\* more(), in a build with overflow checks or in one without
More ==
    \E overflow_checks \in BOOLEAN :
        Call("more", << >>, more(stream, overflow_checks))

Next ==
    \/ AddData
    \/ BufBytes
    \/ SetStreamTypeLen
    \/ SetStreamType
    \/ SetNextVarintLen
    \/ GetVarint
    \/ GetU8
    \/ SetPushId
    \/ SetFramePayloadLen
    \/ SetFrameType
    \/ ParseFrame
    \/ More

Spec == Init /\ [][Next]_vars

(***************************************************************************)
(* The engine under the connection dispatcher: the bytes of a control      *)
(* stream (type prefix, a SETTINGS frame, one more frame) are read by two  *)
(* dispatchers, one fed in a single add_data call, one fed byte by byte.   *)
(* A frame on the wire is its length as a varint, its type as one byte and *)
(* its payload, the order in which the states read them.                   *)
(***************************************************************************)
\* the encodings of n (below 64) as a varint: one byte, or two
VarintEncodings(n) == {<<n>>, <<64, n>>}

\* the payloads the wire's frames carry
WirePayloads == SeqsUpTo(ByteVals, MaxPayloadLen)

\* the well-formed encodings of one frame of type ty
ValidFrames(ty) ==
    UNION {{len \o <<ty>> \o p : len \in VarintEncodings(Len(p))} :
              p \in {q \in WirePayloads : from_bytes2(ty, Len(q), q).ok}}

\* the frame types that follow SETTINGS on the modelled wires
OtherFrameTypes == {PRIORITY_FRAME_TYPE_ID, CANCEL_PUSH_FRAME_TYPE_ID}

\* the valid control streams: type prefix, SETTINGS frame, one other frame
ValidWires ==
    {<<HTTP3_CONTROL_STREAM_TYPE_ID>> \o f1 \o f2 :
        f1 \in ValidFrames(SETTINGS_FRAME_TYPE_ID),
        f2 \in UNION {ValidFrames(ty) : ty \in OtherFrameTypes}}

\* a read that failed for lack of buffered bytes, to be retried after the
\* next append
WouldBlock(res) == res \in {"BufferTooShort", "Done"}

\* the dispatcher stopped by error res of a setter or of the frame codec
Stopped(d, s, res) == [d EXCEPT !.s = s, !.err = res]

\* after a setter: go on when it succeeded, stop on its error
AfterSetter(d, r) ==
    IF r.res = "Ok" THEN [d EXCEPT !.s = r.s] ELSE Stopped(d, r.s, r.res)

\* one step of the dispatcher on its stream: the read and the setter that
\* the stream's state asks for
Process(d) ==
    LET s == d.s IN
    IF d.err # "None" THEN d
    ELSE CASE s.state = "StreamTypeLen" ->
                AfterSetter(d, set_stream_type_len(s, 1))
           [] s.state = "StreamType" ->
                LET b == buf_bytes(s, s.ty_len) IN
                IF WouldBlock(b.res) THEN d
                ELSE IF b.res # "Ok" \/ b.val = << >> THEN Stopped(d, s, "Panic")
                ELSE AfterSetter(d, set_stream_type(s, deserialize(b.val[1])))
           [] s.state = "FramePayloadLenLen" ->
                LET b == buf_bytes(s, 1) IN
                IF WouldBlock(b.res) THEN d
                ELSE IF b.res # "Ok" THEN Stopped(d, s, b.res)
                ELSE AfterSetter(d, set_next_varint_len(
                                       s, varint_parse_len(b.val[1])))
           [] s.state = "FramePayloadLen" ->
                LET v == get_varint(s) IN
                IF WouldBlock(v.res) THEN d
                ELSE IF v.res # "Ok" THEN Stopped(d, s, v.res)
                ELSE AfterSetter(d, set_frame_payload_len(v.s, v.val[1]))
           [] s.state = "FrameTypeLen" ->
                AfterSetter(d, set_next_varint_len(s, 1))
           [] s.state = "FrameType" ->
                LET b == get_u8(s) IN
                IF WouldBlock(b.res) THEN d
                ELSE IF b.res # "Ok" THEN Stopped(d, s, b.res)
                ELSE AfterSetter(d, set_frame_type(b.s, b.val[1]))
           [] s.state = "FramePayload" ->
                LET f == parse_frame(s) IN
                IF f.res = "BufferTooShort" THEN d
                ELSE IF f.res # "Ok" THEN Stopped(d, s, f.res)
                ELSE [d EXCEPT !.s = f.s, !.frames = Append(@, f.val[1])]
           [] OTHER -> d

\* the dispatcher has all the bytes and nothing left that it can do
Finished(d) == d.fed = Len(wire) /\ Process(d) = d

InitChunk ==
    /\ wire \in ValidWires
    /\ drv = [f \in Feeds |-> Dispatcher(2)]
    /\ stream = new(2)
    /\ call = [op |-> "new", res |-> "Ok"]
    /\ settings_ok = 0
    /\ retry = "none"

\* the transport delivers the whole stream at once
FeedWhole ==
    /\ drv.whole.fed = 0
    /\ drv' = [drv EXCEPT !.whole.s = add_data(@, wire).s,
                          !.whole.fed = Len(wire)]
    /\ UNCHANGED <<stream, call, settings_ok, retry, wire>>

\* the transport delivers the next single byte
FeedByte ==
    /\ drv.bytewise.fed < Len(wire)
    /\ drv' = [drv EXCEPT
                 !.bytewise.s = add_data(@, <<wire[drv.bytewise.fed + 1]>>).s,
                 !.bytewise.fed = @ + 1]
    /\ UNCHANGED <<stream, call, settings_ok, retry, wire>>

\* a dispatcher processes its stream, when that gets it anywhere
Dispatch ==
    \E f \in Feeds :
        /\ Process(drv[f]) # drv[f]
        /\ drv' = [drv EXCEPT ![f] = Process(@)]
        /\ UNCHANGED <<stream, call, settings_ok, retry, wire>>

NextChunk ==
    \/ FeedWhole
    \/ FeedByte
    \/ Dispatch

SpecChunk == InitChunk /\ [][NextChunk]_vars

(***************************************************************************)
(* The classifier under the dispatcher: a unidirectional stream whose      *)
(* first byte is any of the 256 values is read by the two dispatchers,     *)
(* which classify the byte with StreamType::deserialize.                   *)
(***************************************************************************)
InitClassify ==
    /\ wire \in {<<v>> : v \in 0..255}
    /\ drv = [f \in Feeds |-> Dispatcher(2)]
    /\ stream = new(2)
    /\ call = [op |-> "new", res |-> "Ok"]
    /\ settings_ok = 0
    /\ retry = "none"

SpecClassify == InitClassify /\ [][NextChunk]_vars

(***************************************************************************)
(* Resumption: the bytes of one well-formed frame that a request stream    *)
(* accepts arrive in chunks of any size, and the dispatcher goes on from   *)
(* the operation that lacked data after each of them.                      *)
(***************************************************************************)
\* the frame types a request stream accepts
RequestFrameTypes == {DATA_FRAME_TYPE_ID, HEADERS_FRAME_TYPE_ID,
                      PRIORITY_FRAME_TYPE_ID, PUSH_PROMISE_FRAME_TYPE_ID}

InitResume ==
    /\ wire \in UNION {ValidFrames(ty) : ty \in RequestFrameTypes}
    /\ drv = [f \in {"chunked"} |-> Dispatcher(1)]
    /\ stream = new(1)
    /\ call = [op |-> "new", res |-> "Ok"]
    /\ settings_ok = 0
    /\ retry = "none"

\* the transport delivers the next n bytes; retry records that parse_frame
\* was short of payload bytes before them
FeedChunk ==
    \E n \in 1..(Len(wire) - drv.chunked.fed) :
        /\ drv' = [drv EXCEPT
                     !.chunked.s =
                        add_data(@, SubSeq(wire, drv.chunked.fed + 1,
                                           drv.chunked.fed + n)).s,
                     !.chunked.fed = @ + n]
        /\ retry' = IF /\ drv.chunked.s.state = "FramePayload"
                       /\ parse_frame(drv.chunked.s).res = "BufferTooShort"
                    THEN "short"
                    ELSE retry
        /\ UNCHANGED <<stream, call, settings_ok, wire>>

\* the dispatcher processes the stream, when that gets it anywhere
DispatchResume ==
    /\ Process(drv.chunked) # drv.chunked
    /\ drv' = [drv EXCEPT !.chunked = Process(@)]
    /\ retry' = IF /\ retry = "short"
                   /\ Len(Process(drv.chunked).frames) > Len(drv.chunked.frames)
                THEN "retried"
                ELSE retry
    /\ UNCHANGED <<stream, call, settings_ok, wire>>

NextResume ==
    \/ FeedChunk
    \/ DispatchResume

SpecResume ==
    /\ InitResume
    /\ [][NextResume]_vars
    /\ WF_vars(FeedChunk)
    /\ WF_vars(DispatchResume)

(***************************************************************************)
(* Properties.                                                             *)
(***************************************************************************)
Setters == {"set_stream_type_len", "set_stream_type", "set_next_varint_len",
            "set_frame_payload_len", "set_frame_type"}

Reads == {"buf_bytes", "get_u8", "get_varint", "parse_frame"}

\* the state(s) in which the table of transitions expects each setter
ExpectedStates(op) ==
    CASE op = "set_stream_type_len" -> {"StreamTypeLen"}
      [] op = "set_stream_type" -> {"StreamType"}
      [] op = "set_next_varint_len" ->
             {"FramePayloadLenLen", "FrameTypeLen", "PushIdLen"}
      [] op = "set_frame_payload_len" -> {"FramePayloadLen"}
      [] op = "set_frame_type" -> {"FrameType"}

\* a failed call: the error and nothing else
Fails(r, s, err) == r.res = err /\ r.s = s

\* the number of appended bytes not yet consumed (negative when the read
\* cursor is past the end)
Unconsumed(s) == s.buf_end_pos - s.buf_read_off

\* the bytes parse_frame hands to the frame codec
Payload(s) ==
    SubSeq(s.buf, s.buf_read_off + 1, s.buf_read_off + s.frame_payload_len)

\* C1: on a Control stream that is not initialised, set_frame_type(t) with
\* t other than SETTINGS fails with MissingSettings and changes no field of
\* the stream (state, initialised and frame_type among them): in every
\* reachable state that is what the method returns for every such t, and
\* every failed set_frame_type step on such a stream is that failure.
C1_FirstFrameRule ==
    /\ [](stream.ty = <<"Control">> /\ ~stream.initialised
            => \A t \in AllFrameTypes \ {SETTINGS_FRAME_TYPE_ID} :
                  Fails(set_frame_type(stream, t), stream, "MissingSettings"))
    /\ [][call'.op = "set_frame_type" /\ stream.ty = <<"Control">>
            /\ ~stream.initialised /\ call'.res # "Ok"
            => call'.res = "MissingSettings" /\ stream' = stream]_vars

\* C1 witness: the dispatcher order was followed up to FrameType on a
\* Control stream and set_frame_type has just failed with MissingSettings.
C1_Witness ==
    /\ call.op = "set_frame_type"
    /\ call.res = "MissingSettings"
    /\ stream.ty = <<"Control">>
    /\ stream.state = "FrameType"
    /\ ~stream.initialised

\* C2: on an initialised Control stream set_frame_type(SETTINGS) fails with
\* UnexpectedFrame and changes nothing; at most one set_frame_type(SETTINGS)
\* ever succeeds on a control stream, and a set_frame_type with another type
\* succeeds there only after it.
C2_NoDuplicateSettings ==
    /\ [](stream.ty = <<"Control">> /\ stream.initialised
            => Fails(set_frame_type(stream, SETTINGS_FRAME_TYPE_ID), stream,
                     "UnexpectedFrame"))
    /\ [](settings_ok <= 1)
    /\ [][call'.op = "set_frame_type" /\ stream.ty = <<"Control">>
            /\ call'.res = "Ok"
            /\ stream'.frame_type # <<SETTINGS_FRAME_TYPE_ID>>
            => settings_ok = 1]_vars

\* C2 witness: after the one accepted SETTINGS, a second set_frame_type on
\* the control stream was refused with UnexpectedFrame.
C2_Witness ==
    /\ settings_ok = 1
    /\ call.op = "set_frame_type"
    /\ call.res = "UnexpectedFrame"
    /\ stream.ty = <<"Control">>
    /\ stream.frame_type = <<SETTINGS_FRAME_TYPE_ID>>

\* C3: on a Request stream set_frame_type(t) with t outside {HEADERS, DATA,
\* PRIORITY, PUSH_PROMISE} fails with UnexpectedFrame and changes nothing;
\* with t inside it succeeds, stores t and moves to FramePayload.
C3_RequestWhitelist ==
    /\ [](stream.ty = <<"Request">>
            => \A t \in AllFrameTypes :
                  LET r == set_frame_type(stream, t) IN
                  IF t \in {HEADERS_FRAME_TYPE_ID, DATA_FRAME_TYPE_ID,
                          PRIORITY_FRAME_TYPE_ID,
                          PUSH_PROMISE_FRAME_TYPE_ID}
                  THEN /\ r.res = "Ok"
                       /\ r.s = [stream EXCEPT !.state = "FramePayload",
                                               !.frame_type = <<t>>]
                  ELSE Fails(r, stream, "UnexpectedFrame"))
    /\ [][call'.op = "set_frame_type" /\ stream.ty = <<"Request">>
            => \/ call'.res = "Ok" /\ stream'.state = "FramePayload"
               \/ call'.res = "UnexpectedFrame" /\ stream' = stream]_vars

\* C3 witness: a Request stream driven in order to FrameType, where a frame
\* type outside the whitelist was refused.
C3_Witness ==
    /\ call.op = "set_frame_type"
    /\ call.res = "UnexpectedFrame"
    /\ stream.ty = <<"Request">>
    /\ stream.state = "FrameType"

\* C4 (as claimed): every setter called while the stream is not in the
\* state that setter expects fails with InternalError and changes nothing.
C4_SettersRejectWrongState ==
    [][call'.op \in Setters /\ stream.state \notin ExpectedStates(call'.op)
         => call'.res = "InternalError" /\ stream' = stream]_vars

\* C5 (as claimed): set_stream_type(None) in state StreamType lands in
\* Invalid, and every setter called in Invalid fails.
C5_InvalidRejectsSetters ==
    [][/\ call'.op = "set_stream_type" /\ stream.state = "StreamType"
          /\ stream'.ty = << >>
          => stream'.state = "Invalid"
       /\ call'.op \in Setters /\ stream.state = "Invalid"
          => call'.res # "Ok"]_vars

\* C6: in FramePayload with fewer than frame_payload_len unconsumed bytes
\* parse_frame fails with BufferTooShort and changes nothing; retried after
\* add_data has supplied the rest of the frame (a payload the frame codec
\* takes), it succeeds, advances buf_read_off and stream_offset by exactly
\* frame_payload_len and moves to FramePayloadLenLen.
C6_PartialPayload ==
    [][call'.op = "parse_frame" =>
         /\ stream.state = "FramePayload"
              /\ Unconsumed(stream) < stream.frame_payload_len
            => call'.res = "BufferTooShort" /\ stream' = stream
                 /\ retry' = "short"
         /\ retry = "short"
              /\ Unconsumed(stream) >= stream.frame_payload_len
              /\ from_bytes2(stream.frame_type[1], stream.frame_payload_len,
                             Payload(stream)).ok
            => call'.res = "Ok"
                 /\ stream' =
                      [stream EXCEPT
                         !.buf_read_off = @ + stream.frame_payload_len,
                         !.stream_offset = @ + stream.frame_payload_len,
                         !.state = "FramePayloadLenLen"]
                 /\ retry' = "retried"]_vars

\* C6 witness: a parse_frame that failed for a payload of which only a part
\* was buffered has been retried after add_data and has succeeded.
C6_Witness ==
    /\ retry = "retried"
    /\ call.op = "parse_frame"
    /\ call.res = "Ok"
    /\ stream.frame_payload_len = 2
    /\ stream.state = "FramePayloadLenLen"

\* C7 (as claimed): 0 <= buf_read_off <= buf_end_pos <= len(buf) in every
\* reachable state.
C7_CursorInvariant ==
    /\ 0 <= stream.buf_read_off
    /\ stream.buf_read_off <= stream.buf_end_pos
    /\ stream.buf_end_pos <= Len(stream.buf)

\* C8: no step, of a call that succeeds or of one that fails, lowers
\* stream_offset or buf_read_off.
C8_OffsetMonotonicity ==
    [][/\ stream'.stream_offset >= stream.stream_offset
       /\ stream'.buf_read_off >= stream.buf_read_off]_vars

\* C8 witness: a frame was parsed off a buffer whose cursor had already
\* moved, so both offsets were advanced more than once.
C8_Witness ==
    /\ call.op = "parse_frame"
    /\ call.res = "Ok"
    /\ stream.frame_payload_len >= 1
    /\ stream.buf_read_off > stream.frame_payload_len

\* C10: a buf_bytes, get_u8, get_varint or parse_frame that returns an error
\* leaves the stream exactly as it was (buf_read_off, buf_end_pos,
\* stream_offset, state, next_varint_len, frame_payload_len and frame_type
\* among its fields).
C10_FailedReadKeepsState ==
    [][call'.op \in Reads /\ call'.res \notin {"Ok", "Panic"}
         => stream' = stream]_vars

\* C10 witness: get_varint failed in the varint codec, on buffered bytes
\* whose first byte announces a wider integer than next_varint_len.
C10_Witness ==
    /\ call.op = "get_varint"
    /\ call.res = "BufferTooShort"
    /\ stream.next_varint_len >= 1
    /\ Unconsumed(stream) >= stream.next_varint_len

\* C9: for every valid control stream (type prefix, SETTINGS frame, one
\* other frame), the dispatcher fed the bytes in one add_data call and the
\* dispatcher fed them one byte at a time, each having all the bytes and
\* nothing left to do, were yielded the same frames and hold streams equal
\* in state, ty, initialised, buf_read_off and stream_offset; neither was
\* stopped by an error and both took the two frames.
C9_ChunkingInvariance ==
    Finished(drv.whole) /\ Finished(drv.bytewise) =>
        /\ drv.whole.frames = drv.bytewise.frames
        /\ Len(drv.whole.frames) = 2
        /\ drv.whole.err = "None" /\ drv.bytewise.err = "None"
        /\ \A fld \in {"state", "ty", "initialised", "buf_read_off",
                        "stream_offset"} :
              drv.whole.s[fld] = drv.bytewise.s[fld]

\* C9 witness: both dispatchers are through a stream whose second frame has
\* a two-byte length and a payload, the bytewise one having had to retry.
C9_Witness ==
    /\ Finished(drv.whole)
    /\ Finished(drv.bytewise)
    /\ Len(drv.bytewise.frames) = 2
    /\ drv.bytewise.frames[2][2] >= 1
    /\ Len(wire) >= 8
    /\ drv.bytewise.s.buf_read_off = Len(wire)

Classifying == {"StreamTypeLen", "StreamType"}

\* C11: once ty is a concrete StreamType no step changes it, and once state
\* is outside StreamTypeLen/StreamType no step brings it back to either.
C11_ClassifiedOnce ==
    [][/\ stream.ty # << >> => stream'.ty = stream.ty
       /\ stream.state \notin Classifying
          => stream'.state \notin Classifying]_vars

\* C11 witness: a classified stream, past the type prefix, on which a
\* further set_stream_type was tried and refused.
C11_Witness ==
    /\ stream.ty \in {<<"Control">>, <<"Push">>}
    /\ stream.state \notin Classifying
    /\ call.op = "set_stream_type"
    /\ call.res = "InternalError"

\* C12 (as claimed): more() returns true when at least one unconsumed byte
\* is buffered and false when none is, and does not underflow (no panic).
C12_MoreCountsUnconsumed ==
    call.op = "more"
        => call.res = IF Unconsumed(stream) >= 1 THEN "True" ELSE "False"

\* what Stream::new builds for a stream of the given directionality
InitialStream(bidi) ==
    [ty |-> IF bidi THEN <<"Request">> ELSE << >>,
     initialised |-> bidi,
     ty_len |-> 0,
     state |-> IF bidi THEN "FramePayloadLenLen" ELSE "StreamTypeLen",
     stream_offset |-> 0, buf |-> << >>, buf_read_off |-> 0,
     buf_end_pos |-> 0, next_varint_len |-> 0, frame_payload_len |-> 0,
     frame_type |-> << >>]

\* C13: Stream::new yields, for a bidirectional id (bit 0x2 clear), ty =
\* Request, initialised, state FramePayloadLenLen, and for a unidirectional
\* id ty = None, not initialised, state StreamTypeLen; both with offsets
\* and cursors 0 and an empty buffer.  The stream right after construction
\* is one of the two.
C13_InitialState ==
    /\ \A id \in 0..15 : new(id) = InitialStream(id % 4 < 2)
    /\ call.op = "new"
         => /\ stream \in {InitialStream(TRUE), InitialStream(FALSE)}
            /\ stream.buf_read_off = 0 /\ stream.buf_end_pos = 0
            /\ stream.stream_offset = 0 /\ stream.buf = << >>
            /\ stream.initialised = (stream.ty = <<"Request">>)
            /\ stream.initialised = (stream.state = "FramePayloadLenLen")

\* C13 witness: a stream just constructed on a bidirectional id.
C13_Witness ==
    /\ call.op = "new"
    /\ stream.ty = <<"Request">>
    /\ stream.state = "FramePayloadLenLen"

\* the stream role of a type byte: 0x43, 0x50, 0x48, 0x68, else none
RoleOfTag(v) ==
    IF v = 67 THEN <<"Control">>
    ELSE IF v = 80 THEN <<"Push">>
    ELSE IF v = 72 THEN <<"QpackEncoder">>
    ELSE IF v = 104 THEN <<"QpackDecoder">>
    ELSE << >>

\* C14: StreamType::deserialize maps 0x43 to Control, 0x50 to Push, 0x48 to
\* QpackEncoder, 0x68 to QpackDecoder and each other byte value to None,
\* never to Request; a stream the dispatcher has classified from its type
\* byte has that role, and the classification stopped no dispatcher.
C14_ClassifierTotal ==
    /\ \A v \in 0..255 :
          deserialize(v) = RoleOfTag(v) /\ deserialize(v) # <<"Request">>
    /\ \A f \in Feeds :
          /\ drv[f].err = "None"
          /\ drv[f].s.state \notin Classifying
             => /\ drv[f].s.ty = RoleOfTag(wire[1])
                /\ drv[f].s.ty # <<"Request">>

\* C14 witness: the type byte 0x68 was classified, and the stream is a
\* QPACK decoder stream.
C14_Witness ==
    /\ wire = <<104>>
    /\ drv.bytewise.s.ty = <<"QpackDecoder">>
    /\ drv.bytewise.s.state = "QpackInstruction"

\* the state the table of transitions gives for a classified type
StateOfType(ty) ==
    CASE ty \in {<<"Request">>, <<"Control">>} -> "FramePayloadLenLen"
      [] ty = <<"Push">> -> "PushIdLen"
      [] ty \in {<<"QpackEncoder">>, <<"QpackDecoder">>} -> "QpackInstruction"
      [] OTHER -> "Invalid"

QpackTypes == {<<"QpackEncoder">>, <<"QpackDecoder">>}

FramedTypes == {<<"Control">>, <<"Request">>, <<"Push">>}

\* C15: in state StreamType, set_stream_type(ty) succeeds for every ty and
\* moves to the state that ty alone determines (Request, Control ->
\* FramePayloadLenLen; Push -> PushIdLen; QpackEncoder, QpackDecoder ->
\* QpackInstruction, initialised set; None -> Invalid), initialised staying
\* false for Control and Push; and the stream after every successful
\* set_stream_type call is in the state of its type.
C15_TypeTransition ==
    /\ stream.state = "StreamType"
       => \A ty \in StreamTypeVals :
             LET r == set_stream_type(stream, ty) IN
             /\ r.res = "Ok"
             /\ r.s.ty = ty
             /\ r.s.state = StateOfType(ty)
             /\ ty \in QpackTypes => r.s.initialised
             /\ ty \in {<<"Control">>, <<"Push">>} => ~r.s.initialised
    /\ call.op = "set_stream_type" /\ call.res = "Ok"
       => /\ stream.state = StateOfType(stream.ty)
          /\ stream.ty \in QpackTypes => stream.initialised
          /\ stream.ty \in {<<"Control">>, <<"Push">>} => ~stream.initialised

\* C15 witness: set_stream_type has just classified a Push stream, which
\* waits for its push id and is not initialised.
C15_Witness ==
    /\ call.op = "set_stream_type"
    /\ call.res = "Ok"
    /\ stream.ty = <<"Push">>
    /\ stream.state = "PushIdLen"
    /\ ~stream.initialised

\* C16: on a stream whose role is not framed (QpackEncoder, QpackDecoder or
\* no type yet) set_frame_payload_len(len) fails with UnexpectedFrame and
\* changes no field, for every len; on a Control, Request or Push stream in
\* state FramePayloadLen it stores len and moves to FrameTypeLen, changing
\* nothing else; every set_frame_payload_len call ends in one of the two.
C16_PayloadLenByRole ==
    /\ stream.ty \notin FramedTypes
       => \A len \in 0..MaxPayloadLen :
             Fails(set_frame_payload_len(stream, len), stream,
                   "UnexpectedFrame")
    /\ stream.ty \in FramedTypes /\ stream.state = "FramePayloadLen"
       => \A len \in 0..MaxPayloadLen :
             LET r == set_frame_payload_len(stream, len) IN
             /\ r.res = "Ok"
             /\ r.s = [stream EXCEPT !.frame_payload_len = len,
                                     !.state = "FrameTypeLen"]
    /\ call.op = "set_frame_payload_len"
       => \/ /\ call.res = "Ok"
             /\ stream.ty \in FramedTypes
             /\ stream.state = "FrameTypeLen"
          \/ /\ call.res = "UnexpectedFrame"
             /\ stream.ty \notin FramedTypes

\* C16 witness: set_frame_payload_len has just been refused on a QPACK
\* stream, which is still in QpackInstruction.
C16_Witness ==
    /\ call.op = "set_frame_payload_len"
    /\ call.res = "UnexpectedFrame"
    /\ stream.ty \in QpackTypes
    /\ stream.state = "QpackInstruction"

\* C17: on a Push stream set_frame_type(t) succeeds for every frame type t,
\* stores t and moves to FramePayloadLenLen, changing nothing else; a Push
\* stream is never in state FramePayload.
C17_PushSkipsPayload ==
    stream.ty = <<"Push">>
    => /\ \A t \in AllFrameTypes :
             LET r == set_frame_type(stream, t) IN
             /\ r.res = "Ok"
             /\ r.s = [stream EXCEPT !.frame_type = <<t>>,
                                     !.state = "FramePayloadLenLen"]
       /\ stream.state # "FramePayload"

\* C17 witness: set_frame_type has just succeeded on a Push stream, which
\* holds the frame type and waits for the next frame's length.
C17_Witness ==
    /\ call.op = "set_frame_type"
    /\ call.res = "Ok"
    /\ stream.ty = <<"Push">>
    /\ stream.frame_type # << >>
    /\ stream.state = "FramePayloadLenLen"

\* C18: a get_varint call made with fewer than next_varint_len unconsumed
\* bytes fails with BufferTooShort and changes nothing; any other get_varint
\* call that succeeds advances buf_read_off and stream_offset by
\* next_varint_len and changes nothing else.
C18_ShortReadIsBufferTooShort ==
    [][call'.op = "get_varint"
       => IF Unconsumed(stream) < stream.next_varint_len
          THEN call'.res = "BufferTooShort" /\ stream' = stream
          ELSE call'.res = "Ok"
               => stream' = [stream EXCEPT
                               !.buf_read_off = @ + stream.next_varint_len,
                               !.stream_offset = @ + stream.next_varint_len]
      ]_vars

\* the streams that one operation of the engine, with any argument, makes
\* of stream s
EngineResults(s) ==
    {add_data(s, d).s : d \in SeqsUpTo(ByteVals, MaxChunk)}
    \cup {buf_bytes(s, size).s : size \in 0..MaxPayloadLen}
    \cup {set_stream_type_len(s, len).s : len \in TyLens}
    \cup {set_stream_type(s, ty).s : ty \in StreamTypeVals}
    \cup {set_next_varint_len(s, len).s : len \in VarintLens}
    \cup {set_frame_payload_len(s, len).s : len \in 0..MaxPayloadLen}
    \cup {set_frame_type(s, ty).s : ty \in AllFrameTypes}
    \cup {set_push_id(s, 0).s, get_varint(s).s, get_u8(s).s,
          parse_frame(s).s}
    \cup {more(s, overflow_checks).s : overflow_checks \in BOOLEAN}

\* C20: a stream in state Invalid has no type, and every operation of the
\* engine with every argument leaves it in state Invalid without a type.
C20_InvalidTerminal ==
    stream.state = "Invalid"
    => /\ stream.ty = << >>
       /\ \A s \in EngineResults(stream) :
             s.state = "Invalid" /\ s.ty = << >>

\* C20 witness: a setter has just been called on a stream in state Invalid
\* (set_frame_payload_len, refused), and the stream is still Invalid.
C20_Witness ==
    /\ stream.state = "Invalid"
    /\ call.op = "set_frame_payload_len"
    /\ call.res = "UnexpectedFrame"

\* C19: on a request stream fed the bytes of one well-formed accepted
\* frame in chunks of any size, with the producer and the dispatcher weakly
\* fair, parse_frame eventually succeeds: the dispatcher is yielded the
\* frame, all bytes are consumed and the stream is back in
\* FramePayloadLenLen, without an error, and stays so.
C19_Resumption ==
    <>[](/\ Len(drv.chunked.frames) = 1
         /\ drv.chunked.err = "None"
         /\ drv.chunked.fed = Len(wire)
         /\ Unconsumed(drv.chunked.s) = 0
         /\ drv.chunked.s.state = "FramePayloadLenLen")

\* C19 witness: parse_frame was short of payload bytes, more bytes were
\* appended, and the retried parse_frame yielded the frame.
C19_Witness ==
    /\ retry = "retried"
    /\ Len(drv.chunked.frames) = 1
    /\ drv.chunked.s.state = "FramePayloadLenLen"

\* C21: parse_frame yields a frame and consumes payload bytes only when
\* state is FramePayload: every parse_frame call that succeeds was made in
\* state FramePayload (where a successful set_frame_type has just left the
\* stream, after the frame's length was set), so that one (length, type)
\* pair is not used for two frames.
C21_ParseOnlyInFramePayload ==
    [][call'.op = "parse_frame" /\ call'.res = "Ok"
       => stream.state = "FramePayload"]_vars

\* C22: in every reachable state stream_offset equals buf_read_off, and the
\* buffer holds every byte ever appended (nothing trims it).
C22_OffsetsEqual ==
    /\ stream.stream_offset = stream.buf_read_off
    /\ Len(stream.buf) = stream.buf_end_pos

\* C22 witness: get_u8 has just consumed a byte, both cursors past it.
C22_Witness ==
    /\ call.op = "get_u8"
    /\ call.res = "Ok"
    /\ stream.buf_read_off > 0
    /\ stream.stream_offset > 0

\* C23: in every reachable state, state FramePayload implies that
\* frame_type is set and that the stream is a Control or a Request stream,
\* so that parse_frame called in state FramePayload does not panic.
C23_FramePayloadHasType ==
    stream.state = "FramePayload"
    => /\ stream.frame_type # << >>
       /\ stream.ty \in {<<"Control">>, <<"Request">>}
       /\ parse_frame(stream).res # "Panic"

\* C23 witness: parse_frame was called in state FramePayload and returned
\* for lack of payload bytes, without a panic.
C23_Witness ==
    /\ stream.state = "FramePayload"
    /\ stream.frame_type # << >>
    /\ call.op = "parse_frame"
    /\ call.res = "BufferTooShort"

\* C24: a stream in state QpackInstruction is a QPACK stream and
\* initialised, and every operation of the engine with every argument
\* leaves its state, its type and initialised as they are;
\* set_frame_payload_len and set_frame_type fail on it with UnexpectedFrame
\* for every argument and change nothing; a QPACK stream is in no state
\* but QpackInstruction, FramePayload among them.
C24_QpackNeverFramed ==
    /\ stream.state = "QpackInstruction"
       => /\ stream.ty \in QpackTypes
          /\ stream.initialised
          /\ \A s \in EngineResults(stream) :
                /\ s.state = "QpackInstruction"
                /\ s.initialised
                /\ s.ty = stream.ty
          /\ \A len \in 0..MaxPayloadLen :
                Fails(set_frame_payload_len(stream, len), stream,
                      "UnexpectedFrame")
          /\ \A t \in AllFrameTypes :
                Fails(set_frame_type(stream, t), stream, "UnexpectedFrame")
    /\ stream.ty \in QpackTypes => stream.state = "QpackInstruction"

\* C24 witness: set_frame_type has just been refused on a QPACK stream,
\* which is still in QpackInstruction and initialised.
C24_Witness ==
    /\ stream.state = "QpackInstruction"
    /\ stream.initialised
    /\ call.op = "set_frame_type"
    /\ call.res = "UnexpectedFrame"

====
